---------------------------- MODULE Spec2Model ----------------------------
(***************************************************************************)
(* A model of go-in-memory-database: the keyspace engine of                *)
(* internal/handler.go (string store, hash store, expiration index, the   *)
(* three RWMutexes, the sixteen handlers and the expiry sweeper) and the   *)
(* server of package internal (StartServer: log replay and accept loop;    *)
(* handleConnection: the read-log-dispatch-reply loop of a connection).    *)
(*                                                                         *)
(* Every goroutine is a thread with a program counter.  A label X_Lnnn is  *)
(* a thread about to call Lock/RLock at line nnn of handler.go (it waits   *)
(* there while the mutex is not available); a label X_nnn is the code      *)
(* that follows, up to and including the matching Unlock/RUnlock.          *)
(* time.Now().Unix() is the variable now; a read of the clock outside a    *)
(* critical section is a step of its own.                                  *)
(*                                                                         *)
(* sync.RWMutex is modelled without writer preference: a reader may still  *)
(* enter while a writer waits.  No thread of the program ever holds a      *)
(* mutex while asking for the same mutex again, so this only adds          *)
(* interleavings.                                                          *)
(***************************************************************************)
EXTENDS Integers, Sequences, FiniteSets, TLC

(***************************************************************************)
(* Bounds of the model.                                                    *)
(***************************************************************************)
\* the clock runs from 0 to MaxTime
MaxTime == 2
\* requests one client sends when the requests are served one at a time
MaxCmds == 3
\* requests each client sends when two clients are served concurrently
MaxConc == 1
\* restarts of the process
MaxRestarts == 1

Conns   == {"c1", "c2"}
Workers == Conns \cup {"main"}
Threads == Workers \cup {"sw"}

VARIABLES
    SETs,         \* handler.go:39  map[string]string
    HSETs,        \* handler.go:179 map[string]map[string]string
    Expirations,  \* handler.go:43  map[string]int64
    locks,        \* SETsMu, HSETsMu, ExpirationsMu
    now,          \* time.Now().Unix()
    log,          \* database.aof: the sequence of appended command Values
    pc,           \* where each goroutine is
    cmd,          \* value.array of the request a thread is serving
    loc,          \* the handler's local variables read from shared state
    res,          \* the Value the handler returned
    flen,         \* the number of records in the file when the process started
    rp,           \* replay: index of the next log record aof.Read hands over
    applied,      \* replay: the records whose handler was invoked
    sw,           \* the sweeper's locals: now, the keys ranged over, k
    nreq,         \* requests read so far on each connection
    replies,      \* Values written back on each connection
    snap,         \* the keyspace as it was when the process was last stopped
    restarts      \* how often the process was restarted

vars == <<SETs, HSETs, Expirations, locks, now, log, pc, cmd, loc, res, flen,
          rp, applied, sw, nreq, replies, snap, restarts>>

stores == <<SETs, HSETs, Expirations>>

(***************************************************************************)
(* Go maps.                                                                *)
(***************************************************************************)
EmptyMap == [x \in {} |-> x]

Has(m, k) == k \in DOMAIN m

MapPut(m, k, v) == [x \in (DOMAIN m) \cup {k} |-> IF x = k THEN v ELSE m[x]]

MapDel(m, k) == [x \in (DOMAIN m) \ {k} |-> m[x]]

(***************************************************************************)
(* Value (the tagged struct of the wire codec).  bulk and str share the    *)
(* field str: typ tells them apart, as on the wire.                        *)
(***************************************************************************)
Val(t, s, n, a) == [typ |-> t, str |-> s, num |-> n, arr |-> a]

SimpleString(s) == Val("string", s, 0, <<>>)
ErrorV(s)       == Val("error", s, 0, <<>>)
Integer(n)      == Val("integer", "", n, <<>>)
Bulk(s)         == Val("bulk", s, 0, <<>>)
ArrayV(a)       == Val("array", "", 0, a)
Null            == Val("null", "", 0, <<>>)
NoValue         == Val("none", "", 0, <<>>)

\* a request as decoded by resp.Read: an array of bulks, or something else
Req(a) == [typ |-> "array", array |-> a]

(***************************************************************************)
(* strings / strconv                                                       *)
(***************************************************************************)
UpperTable ==
    [s \in {"ping", "set", "get", "hset", "hget", "hgetall", "hdel", "hlen",
            "flushall", "del", "info", "incr", "decr", "expire", "ttl",
            "persist", "foo"} |->
        CASE s = "ping" -> "PING" [] s = "set" -> "SET" [] s = "get" -> "GET"
          [] s = "hset" -> "HSET" [] s = "hget" -> "HGET"
          [] s = "hgetall" -> "HGETALL" [] s = "hdel" -> "HDEL"
          [] s = "hlen" -> "HLEN" [] s = "flushall" -> "FLUSHALL"
          [] s = "del" -> "DEL" [] s = "info" -> "INFO" [] s = "incr" -> "INCR"
          [] s = "decr" -> "DECR" [] s = "expire" -> "EXPIRE"
          [] s = "ttl" -> "TTL" [] s = "persist" -> "PERSIST"
          [] s = "foo" -> "FOO"]

\* strings.ToUpper on the names the model sends
ToUpper(s) == IF s \in DOMAIN UpperTable THEN UpperTable[s] ELSE s

\* strings.ToLower on the option words the model sends
ToLower(s) == IF s = "EX" THEN "ex" ELSE IF s = "PX" THEN "px" ELSE s

\* the largest int and int64 (they have the same width on the platforms
\* the server is built for), scaled down; the smallest is MinInt
MaxInt == 15

MinInt == -MaxInt - 1

\* int and int64 arithmetic wraps around
Wrap(n) ==
    IF n > MaxInt THEN n - 2 * (MaxInt + 1)
    ELSE IF n < MinInt THEN n + 2 * (MaxInt + 1)
    ELSE n

\* strconv.Itoa: the decimal digits of n, with a sign when negative
Itoa(n) == ToString(n)

\* strconv.Atoi / strconv.ParseInt(s, 10, 64): err == nil (s is a decimal
\* number and it fits)
IsInt(s) == \E n \in MinInt..MaxInt : Itoa(n) = s

\* strconv.Atoi / strconv.ParseInt: the number, when err == nil
Atoi(s) == CHOOSE n \in MinInt..MaxInt : Itoa(n) = s

(***************************************************************************)
(* sync.RWMutex                                                            *)
(***************************************************************************)
Mutexes == {"SETsMu", "HSETsMu", "ExpirationsMu"}

Free == [w |-> "none", r |-> {}]

CanLock(m) == locks[m].w = "none" /\ locks[m].r = {}

CanRLock(m) == locks[m].w = "none"

Locked(l, t, m) == [l EXCEPT ![m].w = t]

RLocked(l, t, m) == [l EXCEPT ![m].r = @ \cup {t}]

Unlocked(l, t, m) == [l EXCEPT ![m].w = "none"]

RUnlocked(l, t, m) == [l EXCEPT ![m].r = @ \ {t}]

Holds(t) == {m \in Mutexes : locks[m].w = t \/ t \in locks[m].r}


(***************************************************************************)
(* Locals, arguments and control transfer of a thread.                     *)
(***************************************************************************)
NoLoc == [exists |-> FALSE, expireAt |-> 0, existsSET |-> FALSE,
          existsHSET |-> FALSE, n |-> 0]

NoSw == [now |-> 0, done |-> {}, k |-> ""]

\* args := value.array[1:]
Args(t) == Tail(cmd[t])

\* what no handler step touches
env == <<now, log, flen, rp, applied, sw, nreq, replies, snap, restarts>>

\* a handler called by the replay callback returns into aof.Read's loop and
\* its Value is dropped (StartServer, line 44); one called by a connection
\* returns to handleConnection, line 92
Ret(t, v) ==
    /\ pc' = [pc EXCEPT ![t] = IF t = "main" THEN "srv_34" ELSE "ret"]
    /\ res' = [res EXCEPT ![t] = IF t = "main" THEN NoValue ELSE v]
    /\ cmd' = [cmd EXCEPT ![t] = IF t = "main" THEN <<>> ELSE @]
    /\ loc' = [loc EXCEPT ![t] = NoLoc]

Goto(t, l) ==
    /\ pc' = [pc EXCEPT ![t] = l]
    /\ UNCHANGED <<res, cmd>>

\* the outcome of a handler's code before its first Lock: a Value returned at
\* once (pc "ret") or the label of its first Lock
En(l, v) == [pc |-> l, res |-> v]

(***************************************************************************)
(* The places where a thread calls Lock (W) or RLock (R), and the code     *)
(* that runs once it has the mutex.                                        *)
(***************************************************************************)
L(m, mode, next) == [mu |-> m, mode |-> mode, next |-> next]

LockAt ==
    [set_L145     |-> L("SETsMu", "W", "set_146"),
     set_L151     |-> L("ExpirationsMu", "W", "set_152"),
     set_L155     |-> L("ExpirationsMu", "W", "set_156"),
     cad_L77      |-> L("ExpirationsMu", "R", "cad_78"),
     cad_L84      |-> L("SETsMu", "W", "cad_85"),
     cad_L88      |-> L("HSETsMu", "W", "cad_89"),
     cad_L92      |-> L("ExpirationsMu", "W", "cad_93"),
     cad_L100     |-> L("SETsMu", "R", "cad_101"),
     cad_L108     |-> L("HSETsMu", "R", "cad_109"),
     hset_L191    |-> L("HSETsMu", "W", "hset_192"),
     hget_L209    |-> L("HSETsMu", "R", "hget_212"),
     hgetall_L232 |-> L("HSETsMu", "R", "hgetall_235"),
     hdel_L258    |-> L("HSETsMu", "W", "hdel_261"),
     hlen_L280    |-> L("HSETsMu", "R", "hlen_283"),
     flushall_L294 |-> L("SETsMu", "W", "flushall_295"),
     flushall_L299 |-> L("HSETsMu", "W", "flushall_300"),
     flushall_L304 |-> L("ExpirationsMu", "W", "flushall_305"),
     del_L319     |-> L("SETsMu", "W", "del_320"),
     del_L323     |-> L("HSETsMu", "W", "del_324"),
     info_L336    |-> L("SETsMu", "R", "info_337"),
     info_L340    |-> L("HSETsMu", "R", "info_341"),
     incr_L364    |-> L("SETsMu", "W", "incr_367"),
     decr_L391    |-> L("SETsMu", "W", "decr_394"),
     expire_L423  |-> L("SETsMu", "R", "expire_424"),
     expire_L427  |-> L("HSETsMu", "R", "expire_428"),
     expire_L435  |-> L("ExpirationsMu", "W", "expire_436"),
     ttl_L450     |-> L("ExpirationsMu", "R", "ttl_451"),
     ttl_L455     |-> L("SETsMu", "R", "ttl_456"),
     ttl_L459     |-> L("HSETsMu", "R", "ttl_460"),
     persist_L488 |-> L("SETsMu", "R", "persist_489"),
     persist_L492 |-> L("HSETsMu", "R", "persist_493"),
     persist_L500 |-> L("ExpirationsMu", "W", "persist_503"),
     sw_L53       |-> L("ExpirationsMu", "W", "sw_54"),
     sw_L57       |-> L("SETsMu", "W", "sw_58"),
     sw_L62       |-> L("HSETsMu", "W", "sw_63")]

\* the mutex thread t is asking for, if it is at a Lock/RLock call
Wants(t) == IF pc[t] \in DOMAIN LockAt THEN {LockAt[pc[t]].mu} ELSE {}

\* t is at a Lock/RLock call that cannot return now
Blocked(t) ==
    /\ pc[t] \in DOMAIN LockAt
    /\ IF LockAt[pc[t]].mode = "W" THEN ~CanLock(LockAt[pc[t]].mu)
                                   ELSE ~CanRLock(LockAt[pc[t]].mu)

\* Lock / RLock returns
LockStep(t) ==
    /\ pc[t] \in DOMAIN LockAt
    /\ LET a == LockAt[pc[t]] IN
        /\ IF a.mode = "W" THEN CanLock(a.mu) ELSE CanRLock(a.mu)
        /\ locks' = IF a.mode = "W" THEN Locked(locks, t, a.mu)
                                    ELSE RLocked(locks, t, a.mu)
        /\ pc' = [pc EXCEPT ![t] = a.next]
    /\ UNCHANGED <<SETs, HSETs, Expirations, cmd, loc, res, env>>

(***************************************************************************)
(* PING                                                                    *)
(***************************************************************************)
ping_entry(args) ==
    IF Len(args) = 0 THEN En("ret", SimpleString("PONG"))
    ELSE En("ret", SimpleString(args[1]))

(***************************************************************************)
(* SET key value [EX secs]                                                 *)
(***************************************************************************)
\* expireSeconds, for arguments that passed the checks of set
ExpireSeconds(args) == IF Len(args) = 4 THEN Atoi(args[4]) ELSE 0

set_entry(args) ==
    IF Len(args) < 2
    THEN En("ret", ErrorV("ERR wrong number of arguments for 'set' command"))
    ELSE IF Len(args) = 4
    THEN IF ToLower(args[3]) # "ex"
         THEN En("ret", ErrorV("ERR syntax error"))
         ELSE IF ~IsInt(args[4]) \/ Atoi(args[4]) <= 0
         THEN En("ret", ErrorV("ERR invalid expire time"))
         ELSE En("set_L145", NoValue)
    ELSE IF Len(args) # 2
    THEN En("ret", ErrorV("ERR syntax error"))
    ELSE En("set_L145", NoValue)

\* set as it would be if it kept the string lock while it takes the
\* expiration lock
set_146_holding(t) ==
    /\ pc[t] = "set_146"
    /\ SETs' = MapPut(SETs, Args(t)[1], Args(t)[2])
    /\ Goto(t, IF ExpireSeconds(Args(t)) > 0 THEN "set_L151" ELSE "set_L155")
    /\ UNCHANGED <<HSETs, Expirations, locks, loc, env>>

set_146(t) ==
    /\ pc[t] = "set_146"
    /\ SETs' = MapPut(SETs, Args(t)[1], Args(t)[2])
    /\ locks' = Unlocked(locks, t, "SETsMu")
    /\ Goto(t, IF ExpireSeconds(Args(t)) > 0 THEN "set_L151" ELSE "set_L155")
    /\ UNCHANGED <<HSETs, Expirations, loc, env>>

set_152(t) ==
    /\ pc[t] = "set_152"
    /\ Expirations' = MapPut(Expirations, Args(t)[1],
                              Wrap(now + ExpireSeconds(Args(t))))
    /\ locks' = Unlocked(locks, t, "ExpirationsMu")
    /\ Ret(t, SimpleString("OK"))
    /\ UNCHANGED <<SETs, HSETs, env>>

set_156(t) ==
    /\ pc[t] = "set_156"
    /\ Expirations' = MapDel(Expirations, Args(t)[1])
    /\ locks' = Unlocked(locks, t, "ExpirationsMu")
    /\ Ret(t, SimpleString("OK"))
    /\ UNCHANGED <<SETs, HSETs, env>>

set(t) == set_146(t) \/ set_152(t) \/ set_156(t)

(***************************************************************************)
(* GET key, through checkAndDeleteIfExpired                                *)
(***************************************************************************)
get_entry(args) ==
    IF Len(args) # 1
    THEN En("ret", ErrorV("ERR wrong number of arguments for 'get' command"))
    ELSE En("cad_L77", NoValue)

\* get, lines 171-176: the Value made of checkAndDeleteIfExpired's pair
get_result(value, expired) == IF expired THEN Null ELSE Bulk(value)

cad_78(t) ==
    /\ pc[t] = "cad_78"
    /\ loc' = [loc EXCEPT ![t].exists = Has(Expirations, Args(t)[1]),
                          ![t].expireAt = IF Has(Expirations, Args(t)[1])
                                          THEN Expirations[Args(t)[1]] ELSE 0]
    /\ locks' = RUnlocked(locks, t, "ExpirationsMu")
    /\ Goto(t, "cad_81")
    /\ UNCHANGED <<SETs, HSETs, Expirations, env>>

\* line 81: the clock is read with no mutex held
cad_81(t) ==
    /\ pc[t] = "cad_81"
    /\ Goto(t, IF loc[t].exists /\ now > loc[t].expireAt
               THEN "cad_L84" ELSE "cad_L100")
    /\ UNCHANGED <<SETs, HSETs, Expirations, locks, loc, env>>

cad_85(t) ==
    /\ pc[t] = "cad_85"
    /\ SETs' = MapDel(SETs, Args(t)[1])
    /\ locks' = Unlocked(locks, t, "SETsMu")
    /\ Goto(t, "cad_L88")
    /\ UNCHANGED <<HSETs, Expirations, loc, env>>

cad_89(t) ==
    /\ pc[t] = "cad_89"
    /\ HSETs' = MapDel(HSETs, Args(t)[1])
    /\ locks' = Unlocked(locks, t, "HSETsMu")
    /\ Goto(t, "cad_L92")
    /\ UNCHANGED <<SETs, Expirations, loc, env>>

cad_93(t) ==
    /\ pc[t] = "cad_93"
    /\ Expirations' = MapDel(Expirations, Args(t)[1])
    /\ locks' = Unlocked(locks, t, "ExpirationsMu")
    /\ Ret(t, get_result("", TRUE))
    /\ UNCHANGED <<SETs, HSETs, env>>

cad_101(t) ==
    /\ pc[t] = "cad_101"
    /\ locks' = RUnlocked(locks, t, "SETsMu")
    /\ IF Has(SETs, Args(t)[1])
       THEN Ret(t, get_result(SETs[Args(t)[1]], FALSE))
       ELSE (Goto(t, "cad_L108") /\ UNCHANGED loc)
    /\ UNCHANGED <<SETs, HSETs, Expirations, env>>

cad_109(t) ==
    /\ pc[t] = "cad_109"
    /\ locks' = RUnlocked(locks, t, "HSETsMu")
    /\ IF Has(HSETs, Args(t)[1])
       THEN Ret(t, get_result("", FALSE))
       ELSE Ret(t, get_result("", loc[t].exists))
    /\ UNCHANGED <<SETs, HSETs, Expirations, env>>

checkAndDeleteIfExpired(t) ==
    \/ cad_78(t) \/ cad_81(t) \/ cad_85(t) \/ cad_89(t) \/ cad_93(t)
    \/ cad_101(t) \/ cad_109(t)

(***************************************************************************)
(* HSET / HGET / HGETALL / HDEL / HLEN                                     *)
(***************************************************************************)
hset_entry(args) ==
    IF Len(args) # 3
    THEN En("ret", ErrorV("ERR wrong number of arguments for 'hset' command"))
    ELSE En("hset_L191", NoValue)

hset_192(t) ==
    /\ pc[t] = "hset_192"
    /\ LET hash == Args(t)[1]
           m == IF Has(HSETs, hash) THEN HSETs[hash] ELSE EmptyMap
       IN HSETs' = MapPut(HSETs, hash, MapPut(m, Args(t)[2], Args(t)[3]))
    /\ locks' = Unlocked(locks, t, "HSETsMu")
    /\ Ret(t, SimpleString("OK"))
    /\ UNCHANGED <<SETs, Expirations, env>>

hget_entry(args) ==
    IF Len(args) # 2
    THEN En("ret", ErrorV("ERR wrong number of arguments for 'hget' command"))
    ELSE En("hget_L209", NoValue)

hget_212(t) ==
    /\ pc[t] = "hget_212"
    /\ locks' = RUnlocked(locks, t, "HSETsMu")
    /\ LET hash == Args(t)[1]
           key == Args(t)[2]
       IN IF ~Has(HSETs, hash) THEN Ret(t, Null)
          ELSE IF ~Has(HSETs[hash], key) THEN Ret(t, Null)
          ELSE Ret(t, Bulk(HSETs[hash][key]))
    /\ UNCHANGED <<SETs, HSETs, Expirations, env>>

hgetall_entry(args) ==
    IF Len(args) # 1
    THEN En("ret", ErrorV("ERR wrong number of arguments for 'hgetall' command"))
    ELSE En("hgetall_L232", NoValue)

\* the orders in which range may walk the keys of a map
RangeOrders(m) ==
    {s \in [1..Cardinality(DOMAIN m) -> DOMAIN m] :
        \A i, j \in DOMAIN s : i # j => s[i] # s[j]}

\* lines 240-244: field, value, field, value, ... in the order walked
FlatPairs(m, order) ==
    [i \in 1..(2 * Len(order)) |->
        IF i % 2 = 1 THEN order[(i + 1) \div 2] ELSE m[order[i \div 2]]]

hgetall_235(t) ==
    /\ pc[t] = "hgetall_235"
    /\ locks' = RUnlocked(locks, t, "HSETsMu")
    /\ LET hash == Args(t)[1]
       IN IF ~Has(HSETs, hash) THEN Ret(t, Null)
          ELSE \E order \in RangeOrders(HSETs[hash]) :
                  Ret(t, ArrayV(FlatPairs(HSETs[hash], order)))
    /\ UNCHANGED <<SETs, HSETs, Expirations, env>>

hdel_entry(args) ==
    IF Len(args) # 2
    THEN En("ret", ErrorV("ERR wrong number of arguments for 'hdel' command"))
    ELSE En("hdel_L258", NoValue)

\* hdel leaving a hash it has emptied in the store
hdel_261_keeps_empty(t) ==
    /\ pc[t] = "hdel_261"
    /\ LET hash == Args(t)[1]
           key == Args(t)[2]
       IN HSETs' = IF Has(HSETs, hash)
                   THEN MapPut(HSETs, hash, MapDel(HSETs[hash], key))
                   ELSE HSETs
    /\ locks' = Unlocked(locks, t, "HSETsMu")
    /\ Ret(t, SimpleString("OK"))
    /\ UNCHANGED <<SETs, Expirations, env>>

hdel_261(t) ==
    /\ pc[t] = "hdel_261"
    /\ LET hash == Args(t)[1]
           key == Args(t)[2]
       IN HSETs' = IF Has(HSETs, hash)
                   THEN LET m == MapDel(HSETs[hash], key)
                        IN IF Cardinality(DOMAIN m) = 0
                           THEN MapDel(HSETs, hash)
                           ELSE MapPut(HSETs, hash, m)
                   ELSE HSETs
    /\ locks' = Unlocked(locks, t, "HSETsMu")
    /\ Ret(t, SimpleString("OK"))
    /\ UNCHANGED <<SETs, Expirations, env>>

hlen_entry(args) ==
    IF Len(args) # 1
    THEN En("ret", ErrorV("ERR wrong number of arguments for 'hlen' command"))
    ELSE En("hlen_L280", NoValue)

hlen_283(t) ==
    /\ pc[t] = "hlen_283"
    /\ locks' = RUnlocked(locks, t, "HSETsMu")
    /\ LET hash == Args(t)[1]
       IN IF ~Has(HSETs, hash) THEN Ret(t, Integer(0))
          ELSE Ret(t, Integer(Cardinality(DOMAIN HSETs[hash])))
    /\ UNCHANGED <<SETs, HSETs, Expirations, env>>

(***************************************************************************)
(* FLUSHALL / DEL / INFO                                                   *)
(***************************************************************************)
\* flushall never looks at args
flushall_entry(args) == En("flushall_L294", NoValue)

flushall_295(t) ==
    /\ pc[t] = "flushall_295"
    /\ SETs' = EmptyMap
    /\ locks' = Unlocked(locks, t, "SETsMu")
    /\ Goto(t, "flushall_L299")
    /\ UNCHANGED <<HSETs, Expirations, loc, env>>

flushall_300(t) ==
    /\ pc[t] = "flushall_300"
    /\ HSETs' = EmptyMap
    /\ locks' = Unlocked(locks, t, "HSETsMu")
    /\ Goto(t, "flushall_L304")
    /\ UNCHANGED <<SETs, Expirations, loc, env>>

flushall_305(t) ==
    /\ pc[t] = "flushall_305"
    /\ Expirations' = EmptyMap
    /\ locks' = Unlocked(locks, t, "ExpirationsMu")
    /\ Ret(t, SimpleString("OK"))
    /\ UNCHANGED <<SETs, HSETs, env>>

flushall(t) == flushall_295(t) \/ flushall_300(t) \/ flushall_305(t)

del_entry(args) ==
    IF Len(args) # 1
    THEN En("ret", ErrorV("ERR wrong number of arguments for 'del' command"))
    ELSE En("del_L319", NoValue)

del_320(t) ==
    /\ pc[t] = "del_320"
    /\ SETs' = MapDel(SETs, Args(t)[1])
    /\ locks' = Unlocked(locks, t, "SETsMu")
    /\ Goto(t, "del_L323")
    /\ UNCHANGED <<HSETs, Expirations, loc, env>>

del_324(t) ==
    /\ pc[t] = "del_324"
    /\ HSETs' = MapDel(HSETs, Args(t)[1])
    /\ locks' = Unlocked(locks, t, "HSETsMu")
    /\ Ret(t, SimpleString("OK"))
    /\ UNCHANGED <<SETs, Expirations, env>>

del(t) == del_320(t) \/ del_324(t)

info_entry(args) ==
    IF Len(args) # 0
    THEN En("ret", ErrorV("ERR wrong number of arguments for 'info' command"))
    ELSE En("info_L336", NoValue)

info_337(t) ==
    /\ pc[t] = "info_337"
    /\ loc' = [loc EXCEPT ![t].n = Cardinality(DOMAIN SETs)]
    /\ locks' = RUnlocked(locks, t, "SETsMu")
    /\ Goto(t, "info_L340")
    /\ UNCHANGED <<SETs, HSETs, Expirations, env>>

\* lines 342-345: totalFields over the hashes in ks
RECURSIVE TotalFields(_, _)
TotalFields(h, ks) ==
    IF ks = {} THEN 0
    ELSE LET k == CHOOSE x \in ks : TRUE
         IN Cardinality(DOMAIN h[k]) + TotalFields(h, ks \ {k})

\* lines 348-353: the report; its three numbers are kept beside the text
InfoStr(totalKeys, totalHashes, totalFields) ==
    Val("bulk", "# Server Info", 0, <<totalKeys, totalHashes, totalFields>>)

info_341(t) ==
    /\ pc[t] = "info_341"
    /\ locks' = RUnlocked(locks, t, "HSETsMu")
    /\ Ret(t, InfoStr(loc[t].n, Cardinality(DOMAIN HSETs),
                      TotalFields(HSETs, DOMAIN HSETs)))
    /\ UNCHANGED <<SETs, HSETs, Expirations, env>>

info(t) == info_337(t) \/ info_341(t)

(***************************************************************************)
(* INCR / DECR                                                             *)
(***************************************************************************)
incr_entry(args) ==
    IF Len(args) # 1
    THEN En("ret", ErrorV("ERR wrong number of arguments for 'incr' command"))
    ELSE En("incr_L364", NoValue)

\* incr reading the value in one critical section and storing the sum in
\* a second one
incr_367_racy(t) ==
    /\ pc[t] = "incr_367"
    /\ locks' = Unlocked(locks, t, "SETsMu")
    /\ LET key == Args(t)[1]
       IN IF ~loc[t].exists /\ Has(SETs, key) /\ IsInt(SETs[key])
          THEN /\ loc' = [loc EXCEPT ![t].exists = TRUE,
                                     ![t].n = Atoi(SETs[key])]
               /\ Goto(t, "incr_L364")
               /\ SETs' = SETs
          ELSE IF loc[t].exists
          THEN /\ SETs' = MapPut(SETs, key, Itoa(Wrap(loc[t].n + 1)))
               /\ Ret(t, Integer(Wrap(loc[t].n + 1)))
          ELSE IF ~Has(SETs, key)
          THEN SETs' = MapPut(SETs, key, "1") /\ Ret(t, Integer(1))
          ELSE SETs' = SETs /\ Ret(t, ErrorV("ERR value is not an integer"))
    /\ UNCHANGED <<HSETs, Expirations, env>>

incr_367(t) ==
    /\ pc[t] = "incr_367"
    /\ locks' = Unlocked(locks, t, "SETsMu")
    /\ LET key == Args(t)[1]
       IN IF ~Has(SETs, key)
          THEN SETs' = MapPut(SETs, key, "1") /\ Ret(t, Integer(1))
          ELSE IF ~IsInt(SETs[key])
          THEN SETs' = SETs /\ Ret(t, ErrorV("ERR value is not an integer"))
          ELSE /\ SETs' = MapPut(SETs, key, Itoa(Wrap(Atoi(SETs[key]) + 1)))
               /\ Ret(t, Integer(Wrap(Atoi(SETs[key]) + 1)))
    /\ UNCHANGED <<HSETs, Expirations, env>>

decr_entry(args) ==
    IF Len(args) # 1
    THEN En("ret", ErrorV("ERR wrong number of arguments for 'decr' command"))
    ELSE En("decr_L391", NoValue)

decr_394(t) ==
    /\ pc[t] = "decr_394"
    /\ locks' = Unlocked(locks, t, "SETsMu")
    /\ LET key == Args(t)[1]
       IN IF ~Has(SETs, key)
          THEN SETs' = MapPut(SETs, key, "0") /\ Ret(t, Integer(0))
          ELSE IF ~IsInt(SETs[key])
          THEN SETs' = SETs /\ Ret(t, ErrorV("ERR value is not an integer"))
          ELSE /\ SETs' = MapPut(SETs, key, Itoa(Wrap(Atoi(SETs[key]) - 1)))
               /\ Ret(t, Integer(Wrap(Atoi(SETs[key]) - 1)))
    /\ UNCHANGED <<HSETs, Expirations, env>>

(***************************************************************************)
(* EXPIRE / TTL / PERSIST                                                  *)
(***************************************************************************)
expire_entry(args) ==
    IF Len(args) # 2
    THEN En("ret", ErrorV("ERR wrong number of arguments for 'expire' command"))
    ELSE IF ~IsInt(args[2]) \/ Atoi(args[2]) <= 0
    THEN En("ret", ErrorV("ERR invalid expire time"))
    ELSE En("expire_L423", NoValue)

expire_424(t) ==
    /\ pc[t] = "expire_424"
    /\ loc' = [loc EXCEPT ![t].existsSET = Has(SETs, Args(t)[1])]
    /\ locks' = RUnlocked(locks, t, "SETsMu")
    /\ Goto(t, "expire_L427")
    /\ UNCHANGED <<SETs, HSETs, Expirations, env>>

expire_428(t) ==
    /\ pc[t] = "expire_428"
    /\ locks' = RUnlocked(locks, t, "HSETsMu")
    /\ IF ~loc[t].existsSET /\ ~Has(HSETs, Args(t)[1])
       THEN Ret(t, Integer(0))
       ELSE (Goto(t, "expire_L435") /\ UNCHANGED loc)
    /\ UNCHANGED <<SETs, HSETs, Expirations, env>>

expire_436(t) ==
    /\ pc[t] = "expire_436"
    /\ Expirations' = MapPut(Expirations, Args(t)[1],
                              Wrap(now + Atoi(Args(t)[2])))
    /\ locks' = Unlocked(locks, t, "ExpirationsMu")
    /\ Ret(t, Integer(1))
    /\ UNCHANGED <<SETs, HSETs, env>>

expire(t) == expire_424(t) \/ expire_428(t) \/ expire_436(t)

ttl_entry(args) ==
    IF Len(args) # 1
    THEN En("ret", ErrorV("ERR wrong number of arguments for 'ttl' command"))
    ELSE En("ttl_L450", NoValue)

ttl_451(t) ==
    /\ pc[t] = "ttl_451"
    /\ loc' = [loc EXCEPT ![t].exists = Has(Expirations, Args(t)[1]),
                          ![t].expireAt = IF Has(Expirations, Args(t)[1])
                                          THEN Expirations[Args(t)[1]] ELSE 0]
    /\ locks' = RUnlocked(locks, t, "ExpirationsMu")
    /\ Goto(t, "ttl_L455")
    /\ UNCHANGED <<SETs, HSETs, Expirations, env>>

ttl_456(t) ==
    /\ pc[t] = "ttl_456"
    /\ loc' = [loc EXCEPT ![t].existsSET = Has(SETs, Args(t)[1])]
    /\ locks' = RUnlocked(locks, t, "SETsMu")
    /\ Goto(t, "ttl_L459")
    /\ UNCHANGED <<SETs, HSETs, Expirations, env>>

ttl_460(t) ==
    /\ pc[t] = "ttl_460"
    /\ locks' = RUnlocked(locks, t, "HSETsMu")
    /\ IF ~loc[t].existsSET /\ ~Has(HSETs, Args(t)[1])
       THEN Ret(t, Integer(-2))
       ELSE IF ~loc[t].exists
       THEN Ret(t, Integer(-1))
       ELSE (Goto(t, "ttl_471") /\ UNCHANGED loc)
    /\ UNCHANGED <<SETs, HSETs, Expirations, env>>

\* ttl answering the difference whatever its sign
ttl_471_unclamped(t) ==
    /\ pc[t] = "ttl_471"
    /\ Ret(t, Integer(loc[t].expireAt - now))
    /\ UNCHANGED <<SETs, HSETs, Expirations, locks, env>>

\* line 471: the clock is read with no mutex held
ttl_471(t) ==
    /\ pc[t] = "ttl_471"
    /\ LET remaining == loc[t].expireAt - now
       IN IF remaining < 0 THEN Ret(t, Integer(-2))
          ELSE Ret(t, Integer(remaining))
    /\ UNCHANGED <<SETs, HSETs, Expirations, locks, env>>

ttl(t) == ttl_451(t) \/ ttl_456(t) \/ ttl_460(t) \/ ttl_471(t)

persist_entry(args) ==
    IF Len(args) # 1
    THEN En("ret", ErrorV("ERR wrong number of arguments for 'persist' command"))
    ELSE En("persist_L488", NoValue)

persist_489(t) ==
    /\ pc[t] = "persist_489"
    /\ loc' = [loc EXCEPT ![t].existsSET = Has(SETs, Args(t)[1])]
    /\ locks' = RUnlocked(locks, t, "SETsMu")
    /\ Goto(t, "persist_L492")
    /\ UNCHANGED <<SETs, HSETs, Expirations, env>>

persist_493(t) ==
    /\ pc[t] = "persist_493"
    /\ locks' = RUnlocked(locks, t, "HSETsMu")
    /\ IF ~loc[t].existsSET /\ ~Has(HSETs, Args(t)[1])
       THEN Ret(t, Integer(0))
       ELSE (Goto(t, "persist_L500") /\ UNCHANGED loc)
    /\ UNCHANGED <<SETs, HSETs, Expirations, env>>

persist_503(t) ==
    /\ pc[t] = "persist_503"
    /\ locks' = Unlocked(locks, t, "ExpirationsMu")
    /\ IF ~Has(Expirations, Args(t)[1])
       THEN Expirations' = Expirations /\ Ret(t, Integer(0))
       ELSE Expirations' = MapDel(Expirations, Args(t)[1]) /\ Ret(t, Integer(1))
    /\ UNCHANGED <<SETs, HSETs, env>>

persist(t) == persist_489(t) \/ persist_493(t) \/ persist_503(t)

(***************************************************************************)
(* The sweeper goroutine of StartKeyExpiryCleaner.  It holds ExpirationsMu *)
(* for the whole range loop and takes SETsMu and HSETsMu inside it.        *)
(***************************************************************************)
wenv == <<now, log, flen, rp, applied, nreq, replies, snap, restarts>>

\* lines 50-51: wake up and read the clock
sw_50 ==
    /\ pc["sw"] = "sw_50"
    /\ sw' = [now |-> now, done |-> {}, k |-> ""]
    /\ pc' = [pc EXCEPT !["sw"] = "sw_L53"]
    /\ UNCHANGED <<SETs, HSETs, Expirations, locks, cmd, loc, res, wenv>>

sw_54_at_the_instant ==
    /\ pc["sw"] = "sw_54"
    /\ \E k \in (DOMAIN Expirations) \ sw.done :
          IF sw.now >= Expirations[k]
          THEN /\ sw' = [sw EXCEPT !.k = k, !.done = @ \cup {k}]
               /\ pc' = [pc EXCEPT !["sw"] = "sw_L57"]
          ELSE /\ sw' = [sw EXCEPT !.done = @ \cup {k}]
               /\ pc' = pc
    /\ UNCHANGED <<SETs, HSETs, Expirations, locks, cmd, loc, res, wenv>>

\* line 54-55: range hands over a key not yet visited; a key whose instant
\* has not passed is left alone
sw_54 ==
    /\ pc["sw"] = "sw_54"
    /\ \E k \in (DOMAIN Expirations) \ sw.done :
          IF sw.now > Expirations[k]
          THEN /\ sw' = [sw EXCEPT !.k = k, !.done = @ \cup {k}]
               /\ pc' = [pc EXCEPT !["sw"] = "sw_L57"]
          ELSE /\ sw' = [sw EXCEPT !.done = @ \cup {k}]
               /\ pc' = pc
    /\ UNCHANGED <<SETs, HSETs, Expirations, locks, cmd, loc, res, wenv>>

sw_58 ==
    /\ pc["sw"] = "sw_58"
    /\ SETs' = MapDel(SETs, sw.k)
    /\ locks' = Unlocked(locks, "sw", "SETsMu")
    /\ pc' = [pc EXCEPT !["sw"] = "sw_L62"]
    /\ UNCHANGED <<HSETs, Expirations, cmd, loc, res, sw, wenv>>

\* lines 63-67: the hash store, then (ExpirationsMu still held) the index
sw_63 ==
    /\ pc["sw"] = "sw_63"
    /\ HSETs' = MapDel(HSETs, sw.k)
    /\ locks' = Unlocked(locks, "sw", "HSETsMu")
    /\ Expirations' = MapDel(Expirations, sw.k)
    /\ sw' = [sw EXCEPT !.k = ""]
    /\ pc' = [pc EXCEPT !["sw"] = "sw_54"]
    /\ UNCHANGED <<SETs, cmd, loc, res, wenv>>

\* line 70: the range is over
sw_70 ==
    /\ pc["sw"] = "sw_54"
    /\ (DOMAIN Expirations) \ sw.done = {}
    /\ locks' = Unlocked(locks, "sw", "ExpirationsMu")
    /\ sw' = NoSw
    /\ pc' = [pc EXCEPT !["sw"] = "sw_50"]
    /\ UNCHANGED <<SETs, HSETs, Expirations, cmd, loc, res, wenv>>

StartKeyExpiryCleaner == sw_50 \/ sw_54 \/ sw_58 \/ sw_63 \/ sw_70

(***************************************************************************)
(* The dispatcher table and the server.                                    *)
(***************************************************************************)
Handlers ==
    {"PING", "SET", "GET", "HSET", "HGET", "HGETALL", "HDEL", "HLEN",
     "FLUSHALL", "DEL", "INFO", "INCR", "DECR", "EXPIRE", "TTL", "PERSIST"}

\* handler(args), up to the handler's first Lock
Entry(command, args) ==
    CASE command = "PING" -> ping_entry(args)
      [] command = "SET" -> set_entry(args)
      [] command = "GET" -> get_entry(args)
      [] command = "HSET" -> hset_entry(args)
      [] command = "HGET" -> hget_entry(args)
      [] command = "HGETALL" -> hgetall_entry(args)
      [] command = "HDEL" -> hdel_entry(args)
      [] command = "HLEN" -> hlen_entry(args)
      [] command = "FLUSHALL" -> flushall_entry(args)
      [] command = "DEL" -> del_entry(args)
      [] command = "INFO" -> info_entry(args)
      [] command = "INCR" -> incr_entry(args)
      [] command = "DECR" -> decr_entry(args)
      [] command = "EXPIRE" -> expire_entry(args)
      [] command = "TTL" -> ttl_entry(args)
      [] command = "PERSIST" -> persist_entry(args)

\* a list of logged commands with EXPIRE on it
Logged_with_expire(command) ==
    command \in {"SET", "HSET", "DEL", "FLUSHALL", "HDEL", "INCR", "DECR",
                 "EXPIRE"}

\* handleConnection, lines 87-88: the commands a connection logs
Logged(command) ==
    command \in {"SET", "HSET", "DEL", "FLUSHALL", "HDEL", "INCR", "DECR"}

\* Aof.Write: the record goes to the end of the file
AofWrite(file, value) == Append(file, value)

\* handleConnection, lines 65-92: one request is read from the socket (the
\* client sends one of reqs, and at most max requests in all); a request with
\* a handler is logged if its name is on the list, and the handler is entered
Dispatch(t, reqs, max) ==
    /\ pc[t] = "read"
    /\ nreq[t] < max
    /\ nreq' = [nreq EXCEPT ![t] = @ + 1]
    /\ \E value \in reqs :
          IF value.typ # "array" \/ Len(value.array) = 0
          THEN /\ pc' = [pc EXCEPT ![t] = "write_74"]
               /\ res' = [res EXCEPT ![t] = SimpleString("Invalid request")]
               /\ UNCHANGED <<cmd, log>>
          ELSE LET command == ToUpper(value.array[1])
                   args == Tail(value.array)
               IN IF command \notin Handlers
                  THEN /\ pc' = [pc EXCEPT ![t] = "write_83"]
                       /\ res' = [res EXCEPT ![t] =
                                     SimpleString("Unknown command")]
                       /\ UNCHANGED <<cmd, log>>
                  ELSE /\ log' = IF Logged(command)
                                 THEN AofWrite(log, value) ELSE log
                       /\ pc' = [pc EXCEPT ![t] = Entry(command, args).pc]
                       /\ res' = [res EXCEPT ![t] = Entry(command, args).res]
                       /\ cmd' = [cmd EXCEPT ![t] = value.array]
    /\ UNCHANGED <<SETs, HSETs, Expirations, locks, now, loc, flen, rp, applied,
                   sw, replies, snap, restarts>>

\* handleConnection, lines 74, 83 and 93: writer.Write, then the next read
WriteReply(t) ==
    /\ pc[t] \in {"write_74", "write_83", "ret"}
    /\ replies' = [replies EXCEPT ![t] = @ + 1]
    /\ pc' = [pc EXCEPT ![t] = "read"]
    /\ res' = [res EXCEPT ![t] = NoValue]
    /\ cmd' = [cmd EXCEPT ![t] = <<>>]
    /\ UNCHANGED <<SETs, HSETs, Expirations, locks, now, log, loc, flen, rp,
                   applied, sw, nreq, snap, restarts>>

\* a replay that gives up at the first record without a handler
ReplayRecord_stops ==
    /\ pc["main"] = "srv_34"
    /\ rp <= Len(log)
    /\ LET value == log[rp]
           command == ToUpper(value.array[1])
           args == Tail(value.array)
       IN IF command \notin Handlers
          THEN /\ rp' = Len(log) + 1
               /\ UNCHANGED <<pc, cmd, applied>>
          ELSE /\ rp' = rp + 1
               /\ applied' = Append(applied, value)
               /\ IF Entry(command, args).pc = "ret"
                  THEN UNCHANGED <<pc, cmd>>
                  ELSE /\ pc' = [pc EXCEPT !["main"] = Entry(command, args).pc]
                       /\ cmd' = [cmd EXCEPT !["main"] = value.array]
    /\ UNCHANGED <<SETs, HSETs, Expirations, locks, now, log, loc, res, flen,
                   sw, nreq, replies, snap, restarts>>

\* Aof.Read hands the next record of the file to the callback of
\* StartServer, lines 34-45: a name without a handler is reported and
\* skipped, any other record's handler is entered
ReplayRecord ==
    /\ pc["main"] = "srv_34"
    /\ rp <= Len(log)
    /\ rp' = rp + 1
    /\ LET value == log[rp]
           command == ToUpper(value.array[1])
           args == Tail(value.array)
       IN IF command \notin Handlers
          THEN UNCHANGED <<pc, cmd, applied>>
          ELSE /\ applied' = Append(applied, value)
               /\ IF Entry(command, args).pc = "ret"
                  THEN UNCHANGED <<pc, cmd>>
                  ELSE /\ pc' = [pc EXCEPT !["main"] = Entry(command, args).pc]
                       /\ cmd' = [cmd EXCEPT !["main"] = value.array]
    /\ UNCHANGED <<SETs, HSETs, Expirations, locks, now, log, loc, res, flen,
                   sw, nreq, replies, snap, restarts>>

\* Aof.Read reaches the end of the file and returns: StartServer enters its
\* accept loop, line 47
ReplayDone ==
    /\ pc["main"] = "srv_34"
    /\ rp > Len(log)
    /\ pc' = [pc EXCEPT !["main"] = "srv_48"]
    /\ UNCHANGED <<SETs, HSETs, Expirations, locks, now, log, cmd, loc, res,
                   flen, rp, applied, sw, nreq, replies, snap, restarts>>

\* StartServer, lines 48-54: a connection is accepted and gets its goroutine
Accept(c) ==
    /\ pc["main"] = "srv_48"
    /\ pc[c] = "closed"
    /\ pc' = [pc EXCEPT ![c] = "read"]
    /\ UNCHANGED <<SETs, HSETs, Expirations, locks, now, log, cmd, loc, res,
                   flen, rp, applied, sw, nreq, replies, snap, restarts>>

\* a second passes
Tick ==
    /\ now < MaxTime
    /\ now' = now + 1
    /\ UNCHANGED <<SETs, HSETs, Expirations, locks, log, pc, cmd, loc, res,
                   flen, rp, applied, sw, nreq, replies, snap, restarts>>

\* nothing is in flight: no request is being served, the sweeper sleeps and
\* the server is in its accept loop
Quiescent ==
    /\ \A c \in Conns : pc[c] \in {"read", "closed"}
    /\ pc["sw"] = "sw_50"
    /\ pc["main"] = "srv_48"

InitPc == [t \in Threads |->
              IF t = "main" THEN "srv_34"
              ELSE IF t = "sw" THEN "sw_50" ELSE "closed"]

NoSnap == [S |-> EmptyMap, H |-> EmptyMap, E |-> EmptyMap]

\* the process is stopped while nothing is in flight and started again: the
\* memory is gone, the file stays; snap remembers the keyspace that was lost
Restart ==
    /\ Quiescent
    /\ restarts < MaxRestarts
    /\ restarts' = restarts + 1
    /\ snap' = [S |-> SETs, H |-> HSETs, E |-> Expirations]
    /\ SETs' = EmptyMap
    /\ HSETs' = EmptyMap
    /\ Expirations' = EmptyMap
    /\ pc' = InitPc
    /\ flen' = Len(log)
    /\ rp' = 1
    /\ applied' = <<>>
    /\ UNCHANGED <<locks, now, log, cmd, loc, res, sw, nreq, replies>>

\* every step of a handler that follows a Lock
HandlerStep(t) ==
    \/ set(t) \/ checkAndDeleteIfExpired(t)
    \/ hset_192(t) \/ hget_212(t) \/ hgetall_235(t) \/ hdel_261(t)
    \/ hlen_283(t)
    \/ flushall(t) \/ del(t) \/ info(t)
    \/ incr_367(t) \/ decr_394(t)
    \/ expire(t) \/ ttl(t) \/ persist(t)

(***************************************************************************)
(* The program as started on a given log file.                             *)
(***************************************************************************)
InitWith(file) ==
    /\ SETs = EmptyMap
    /\ HSETs = EmptyMap
    /\ Expirations = EmptyMap
    /\ locks = [m \in Mutexes |-> Free]
    /\ now = 0
    /\ log = file
    /\ pc = InitPc
    /\ cmd = [t \in Workers |-> <<>>]
    /\ loc = [t \in Workers |-> NoLoc]
    /\ res = [t \in Workers |-> NoValue]
    /\ flen = Len(file)
    /\ rp = 1
    /\ applied = <<>>
    /\ sw = NoSw
    /\ nreq = [c \in Conns |-> 0]
    /\ replies = [c \in Conns |-> 0]
    /\ snap = NoSnap
    /\ restarts = 0

\* requests on one key, one of each command
Reqs16 ==
    {Req(<<"PING">>), Req(<<"SET", "k1", "a">>),
     Req(<<"SET", "k1", "1", "EX", "1">>), Req(<<"GET", "k1">>),
     Req(<<"HSET", "k1", "f1", "a">>), Req(<<"HGET", "k1", "f1">>),
     Req(<<"HGETALL", "k1">>), Req(<<"HDEL", "k1", "f1">>),
     Req(<<"HLEN", "k1">>), Req(<<"FLUSHALL">>), Req(<<"DEL", "k1">>),
     Req(<<"INFO">>), Req(<<"INCR", "k1">>), Req(<<"DECR", "k1">>),
     Req(<<"EXPIRE", "k1", "1">>), Req(<<"TTL", "k1">>),
     Req(<<"PERSIST", "k1">>)}

\* a log file left by an earlier run: one key with a time to live
Log1 == <<Req(<<"SET", "k1", "1", "EX", "1">>)>>

\* t is the only thread not at rest
Alone(t) ==
    \A u \in Threads \ {t} : pc[u] \in {"read", "closed", "sw_50", "srv_48"}

(***************************************************************************)
(* Spec: two clients, one request each, any of the sixteen commands, on a  *)
(* server started on Log1, with the sweeper and the clock.                 *)
(***************************************************************************)
Init == InitWith(Log1)

Next ==
    \/ ReplayRecord
    \/ ReplayDone
    \/ \E c \in Conns : Accept(c)
    \/ \E c \in Conns : Dispatch(c, Reqs16, MaxConc)
    \/ \E t \in Threads : LockStep(t)
    \/ \E t \in Workers : HandlerStep(t)
    \/ \E c \in Conns : WriteReply(c)
    \/ StartKeyExpiryCleaner
    \/ Tick

Spec == Init /\ [][Next]_vars

(***************************************************************************)
(* SpecSeq: one client whose requests are served one at a time; a sweep    *)
(* runs, and the clock ticks, only between two requests.                   *)
(***************************************************************************)
SeqReqs ==
    Reqs16 \cup
    {Req(<<"FLUSHALL", "k1">>), Req(<<"PING", "a", "b">>),
     Req(<<"SET", "k1">>), Req(<<"GET">>), Req(<<"INFO", "k1">>)}

InitSeq == InitWith(<<>>)

NextSeq ==
    \/ ReplayDone
    \/ Accept("c1")
    \/ Quiescent /\ Dispatch("c1", SeqReqs, MaxCmds)
    \/ Alone("c1") /\ LockStep("c1")
    \/ Alone("c1") /\ HandlerStep("c1")
    \/ WriteReply("c1")
    \/ Alone("sw") /\ LockStep("sw")
    \/ Alone("sw") /\ StartKeyExpiryCleaner
    \/ Quiescent /\ Tick

SpecSeq == InitSeq /\ [][NextSeq]_vars

(***************************************************************************)
(* What a client is told when its request is served with nothing else      *)
(* running: the handler's code read top to bottom on one keyspace.         *)
(***************************************************************************)
\* get (and checkAndDeleteIfExpired) on keyspace S, H, E at clock n
get_alone(S, H, E, n, k) ==
    IF Has(E, k) /\ n > E[k] THEN get_result("", TRUE)
    ELSE IF Has(S, k) THEN get_result(S[k], FALSE)
    ELSE IF Has(H, k) THEN get_result("", FALSE)
    ELSE get_result("", Has(E, k))

\* ttl on keyspace S, H, E at clock n
ttl_alone(S, H, E, n, k) ==
    IF ~Has(S, k) /\ ~Has(H, k) THEN Integer(-2)
    ELSE IF ~Has(E, k) THEN Integer(-1)
    ELSE IF E[k] - n < 0 THEN Integer(-2)
    ELSE Integer(E[k] - n)

\* hgetall on hash store H: Null, or the field-value pairs (in some order)
hgetall_alone(H, k) ==
    IF ~Has(H, k) THEN [typ |-> "null", pairs |-> EmptyMap]
    ELSE [typ |-> "array", pairs |-> H[k]]

(***************************************************************************)
(* The claims.                                                             *)
(***************************************************************************)
\* the name and the argument count of the request thread t is serving
NameOf(c) == ToUpper(c[1])

\* the argument counts the command table allows
ArityOK(name, n) ==
    CASE name = "PING" -> n \in {0, 1}
      [] name = "SET" -> n \in {2, 4}
      [] name \in {"GET", "HGETALL", "HLEN", "DEL", "INCR", "DECR", "TTL",
                   "PERSIST"} -> n = 1
      [] name \in {"HGET", "HDEL", "EXPIRE"} -> n = 2
      [] name = "HSET" -> n = 3
      [] name \in {"FLUSHALL", "INFO"} -> n = 0

\* thread t returns from its handler in this step
Returns(t) == pc[t] # "ret" /\ pc'[t] = "ret"

\* C7 (as claimed): a handler given an argument count outside its contract
\* never changes the string store, the hash store or the expiration index,
\* and what it returns is an Error Value.
C7_ArityErrorNoMutation ==
    [][\A t \in Conns :
          (/\ cmd'[t] # <<>>
           /\ pc'[t] # pc[t]
           /\ ~ArityOK(NameOf(cmd'[t]), Len(cmd'[t]) - 1))
          => /\ stores' = stores
             /\ pc'[t] = "ret" => res'[t].typ = "error"]_vars

\* C8 (as claimed): when GET k returns, it returns Bulk(v) if the string
\* store holds k with value v and k is not expired, and Null in every other
\* case.
C8_GetBulkOrNull ==
    \A t \in Conns :
        (pc[t] = "ret" /\ NameOf(cmd[t]) = "GET" /\ Len(cmd[t]) = 2)
        => LET k == cmd[t][2]
               live == Has(SETs, k) /\ ~(Has(Expirations, k) /\ now > Expirations[k])
           IN IF live THEN res[t] = Bulk(SETs[k]) ELSE res[t] = Null

\* C9 (as claimed): when DEL k returns, when HDEL returns having removed the
\* last field of hash k, when FLUSHALL returns, and when the lazy check or
\* the sweeper has removed k, the expiration index holds no entry for k.
C9_DeleteClearsExpiration ==
    [][/\ \A t \in Conns :
            Returns(t) =>
              LET c == cmd'[t] IN
                /\ (NameOf(c) = "DEL" /\ Len(c) = 2)
                      => ~Has(Expirations', c[2])
                /\ (/\ NameOf(c) = "HDEL" /\ Len(c) = 3
                    /\ Has(HSETs, c[2]) /\ ~Has(HSETs', c[2]))
                      => ~Has(Expirations', c[2])
                /\ NameOf(c) = "FLUSHALL" => Expirations' = EmptyMap
                /\ (NameOf(c) = "GET" /\ pc[t] = "cad_93")
                      => ~Has(Expirations', c[2])
       /\ (pc["sw"] = "sw_63" /\ pc'["sw"] = "sw_54")
             => ~Has(Expirations', sw.k)]_vars

\* C10 (as claimed): when SET k v without EX returns, and when HSET k f v,
\* INCR k or DECR k returns having created k (k was in neither data store),
\* k has no expiration entry: TTL k answers -1.
C10_CreationHasNoTtl ==
    [][\A t \in Conns :
          Returns(t) =>
            LET c == cmd'[t] IN
              (\/ NameOf(c) = "SET" /\ Len(c) = 3
               \/ /\ \/ NameOf(c) = "HSET" /\ Len(c) = 4
                     \/ NameOf(c) \in {"INCR", "DECR"} /\ Len(c) = 2
                  /\ ~Has(SETs, c[2]) /\ ~Has(HSETs, c[2])
                  /\ res'[t].typ # "error")
              => ttl_alone(SETs', HSETs', Expirations', now', c[2]) = Integer(-1)]_vars

(***************************************************************************)
(* SpecRestart: SpecSeq with the commands of the replay claim, and the     *)
(* process stopped and started again (on the file it wrote) between two    *)
(* requests.                                                               *)
(***************************************************************************)
RestartReqs ==
    {Req(<<"SET", "k1", "a">>), Req(<<"SET", "k1", "1", "EX", "1">>),
     Req(<<"HSET", "k2", "f1", "a">>), Req(<<"HDEL", "k2", "f1">>),
     Req(<<"DEL", "k1">>), Req(<<"FLUSHALL">>), Req(<<"INCR", "k1">>),
     Req(<<"DECR", "k1">>), Req(<<"EXPIRE", "k1", "1">>),
     Req(<<"PERSIST", "k1">>)}

NextRestart ==
    \/ Alone("main") /\ ReplayRecord
    \/ Alone("main") /\ LockStep("main")
    \/ Alone("main") /\ HandlerStep("main")
    \/ ReplayDone
    \/ Accept("c1")
    \/ Quiescent /\ Dispatch("c1", RestartReqs, MaxCmds)
    \/ Alone("c1") /\ LockStep("c1")
    \/ Alone("c1") /\ HandlerStep("c1")
    \/ WriteReply("c1")
    \/ Alone("sw") /\ LockStep("sw")
    \/ Alone("sw") /\ StartKeyExpiryCleaner
    \/ Quiescent /\ Tick
    \/ Restart

SpecRestart == InitSeq /\ [][NextRestart]_vars

\* the replay that follows a restart ends in this step
ReplayEnds == restarts > 0 /\ pc["main"] = "srv_34" /\ pc'["main"] = "srv_48"

\* C1 (as claimed): when the replay after a restart ends, every key answers
\* GET, HGETALL and TTL as the keyspace lost in the restart would answer them
\* now; a key of the lost keyspace whose expiry instant has passed by now is
\* in neither data store.
C1_ReplayIdempotent ==
    [][ReplayEnds =>
          \A k \in DOMAIN snap.S \cup DOMAIN snap.H \cup DOMAIN snap.E
                   \cup DOMAIN SETs' \cup DOMAIN HSETs' \cup DOMAIN Expirations' :
             IF Has(snap.E, k) /\ now' > snap.E[k]
             THEN ~Has(SETs', k) /\ ~Has(HSETs', k)
             ELSE /\ get_alone(SETs', HSETs', Expirations', now', k)
                       = get_alone(snap.S, snap.H, snap.E, now', k)
                  /\ hgetall_alone(HSETs', k) = hgetall_alone(snap.H, k)
                  /\ ttl_alone(SETs', HSETs', Expirations', now', k)
                       = ttl_alone(snap.S, snap.H, snap.E, now', k)]_vars

(***************************************************************************)
(* SpecLog: two clients, one SET or INCR each on the same key, served      *)
(* concurrently; then the process is restarted on the file they wrote.     *)
(***************************************************************************)
LogReqs ==
    {Req(<<"SET", "k1", "1">>), Req(<<"SET", "k1", "5">>),
     Req(<<"INCR", "k1">>)}

NextLog ==
    \/ ReplayRecord
    \/ ReplayDone
    \/ \E c \in Conns : Accept(c)
    \/ \E c \in Conns : Dispatch(c, LogReqs, MaxConc)
    \/ \E t \in Workers : LockStep(t)
    \/ \E t \in Workers : set_146(t) \/ set_156(t) \/ incr_367(t)
    \/ \E c \in Conns : WriteReply(c)
    \/ Restart

SpecLog == InitSeq /\ [][NextLog]_vars

\* C3 (as claimed): when the replay after a restart ends, the string store
\* and the hash store are the ones the live keyspace held once the clients'
\* commands had all finished.
C3_LogOrderIsEffectOrder ==
    [][ReplayEnds => (SETs' = snap.S /\ HSETs' = snap.H)]_vars

(***************************************************************************)
(* SpecRace: on a server started on Log1 (k1 with a time to live of one    *)
(* second), one client sends a SET k1, the other a GET k1; the sweeper     *)
(* runs and the clock ticks.                                               *)
(***************************************************************************)
RaceSetReqs ==
    {Req(<<"SET", "k1", "a">>), Req(<<"SET", "k1", "a", "EX", "2">>)}

RaceGetReqs == {Req(<<"GET", "k1">>)}

NextRace ==
    \/ ReplayRecord
    \/ ReplayDone
    \/ \E c \in Conns : Accept(c)
    \/ Dispatch("c1", RaceSetReqs, MaxConc)
    \/ Dispatch("c2", RaceGetReqs, MaxConc)
    \/ \E t \in Threads : LockStep(t)
    \/ \E t \in {"main", "c1"} : set(t)
    \/ checkAndDeleteIfExpired("c2")
    \/ \E c \in Conns : WriteReply(c)
    \/ StartKeyExpiryCleaner
    \/ Tick

SpecRace == Init /\ [][NextRace]_vars

\* C2 (as claimed): once the SET k1 v of client c1 is acknowledged and
\* nothing is in flight (the GET of c2 and the sweeps that raced with it on
\* the expiry left by Log1 are over), k1 is in the string store with value v
\* and its expiration entry is what that SET asked for: none, or an instant
\* secs after the SET (stated while that instant cannot have passed).
C2_AcknowledgedSetSurvives ==
    (Quiescent /\ replies["c1"] = 1 /\ log[Len(log)].array[1] = "SET"
               /\ Len(log) > flen)
    => LET r == log[Len(log)].array
       IN (Len(r) = 5 => now <= Atoi(r[5]))
          => /\ Has(SETs, r[2]) /\ SETs[r[2]] = r[3]
             /\ Len(r) = 3 => ~Has(Expirations, r[2])
             /\ Len(r) = 5 => /\ Has(Expirations, r[2])
                              /\ Expirations[r[2]] >= Atoi(r[5])
                              /\ Expirations[r[2]] <= now + Atoi(r[5])

\* C4 (as claimed): no thread asks for the string-store lock or the
\* hash-store lock while it holds the expiration-index lock.
C4_DataLockBeforeExpirationLock ==
    \A t \in Threads :
        "ExpirationsMu" \in Holds(t) => Wants(t) \cap {"SETsMu", "HSETsMu"} = {}

(***************************************************************************)
(* SpecReplay: the server started on one of several log files (some with   *)
(* a record no handler is named by, some with a record its handler         *)
(* rejects), and two clients.                                              *)
(***************************************************************************)
InitLogs ==
    {<<>>,
     <<Req(<<"SET", "k1", "a">>)>>,
     <<Req(<<"FOO", "k1">>), Req(<<"SET", "k1", "a">>)>>,
     <<Req(<<"set", "k1", "a">>), Req(<<"foo">>), Req(<<"SET", "k2">>),
       Req(<<"INCR", "k2">>)>>}

ReplayReqs == {Req(<<"SET", "k1", "b">>), Req(<<"INCR", "k2">>)}

InitReplay == \E file \in InitLogs : InitWith(file)

NextReplay ==
    \/ ReplayRecord
    \/ ReplayDone
    \/ \E c \in Conns : Accept(c)
    \/ \E c \in Conns : Dispatch(c, ReplayReqs, MaxConc)
    \/ \E t \in Workers : LockStep(t)
    \/ \E t \in Workers : set_146(t) \/ set_156(t) \/ incr_367(t)
    \/ \E c \in Conns : WriteReply(c)

SpecReplay == InitReplay /\ [][NextReplay]_vars

\* the record names a handler
HasHandler(value) == ToUpper(value.array[1]) \in Handlers

\* the record names a handler and passes its checks on the arguments (in
\* these logs: a SET or an INCR that stores under its key)
Writes(value) ==
    /\ HasHandler(value)
    /\ Entry(ToUpper(value.array[1]), Tail(value.array)).pc # "ret"

\* a client has been accepted or has had a request dispatched
Served == \E c \in Conns : pc[c] # "closed" \/ nreq[c] > 0

\* C6: whenever a client connection has been accepted or a client command
\* dispatched, the replay is over: every record the file held at startup was
\* handed over, the handler of each record that names one was invoked, in
\* order (the others were skipped), no handler called by the replay is
\* still running, and every key a replayed record stores is in the keyspace.
C6_ReplayBeforeServing ==
    Served =>
        /\ pc["main"] = "srv_48"
        /\ rp = flen + 1
        /\ applied = SelectSeq(SubSeq(log, 1, flen), HasHandler)
        /\ \A i \in 1..flen :
              Writes(log[i]) => Has(SETs, log[i].array[2])

\* a client is being served by a server whose file held a record without a
\* handler followed by records that were applied
C6_Witness ==
    /\ \E c \in Conns : pc[c] = "set_156"
    /\ flen = 4
    /\ Len(applied) = 3
    /\ Has(SETs, "k2")

(***************************************************************************)
(* FairSpec: two clients with the sweeper and the clock under fair         *)
(* scheduling; one client sends any of the sixteen commands, the other one *)
(* of the commands that take several locks.  A goroutine that can run does *)
(* run (weak fairness of every step of a handler, of the sweeper and of    *)
(* the replay), and a Lock or RLock call that can return again and again   *)
(* does return (strong fairness: sync.Mutex hands the mutex to a waiter    *)
(* that has starved).  Clients need not connect nor send, and the clock    *)
(* need not advance.                                                       *)
(***************************************************************************)
Fairness ==
    /\ \A t \in Threads : SF_vars(LockStep(t))
    /\ \A t \in Workers : WF_vars(HandlerStep(t))
    /\ \A c \in Conns : WF_vars(WriteReply(c))
    /\ WF_vars(StartKeyExpiryCleaner)
    /\ WF_vars(ReplayRecord)
    /\ WF_vars(ReplayDone)

FairReqs2 ==
    {Req(<<"SET", "k1", "1", "EX", "1">>), Req(<<"GET", "k1">>),
     Req(<<"FLUSHALL">>)}

NextFair ==
    \/ ReplayRecord
    \/ ReplayDone
    \/ \E c \in Conns : Accept(c)
    \/ Dispatch("c1", Reqs16, MaxConc)
    \/ Dispatch("c2", FairReqs2, MaxConc)
    \/ \E t \in Threads : LockStep(t)
    \/ \E t \in Workers : HandlerStep(t)
    \/ \E c \in Conns : WriteReply(c)
    \/ StartKeyExpiryCleaner
    \/ Tick

FairSpec == Init /\ [][NextFair]_vars /\ Fairness

\* t is at a Lock or RLock call and u stands in its way: u holds the mutex
\* for writing, or holds it for reading while t wants to write, or u is a
\* writer asking for the mutex t wants to read (an RWMutex makes new readers
\* wait behind a writer that has called Lock)
WaitsFor(t, u) ==
    /\ t # u
    /\ pc[t] \in DOMAIN LockAt
    /\ LET a == LockAt[pc[t]] IN
        \/ locks[a.mu].w = u
        \/ a.mode = "W" /\ u \in locks[a.mu].r
        \/ /\ a.mode = "R"
           /\ pc[u] \in DOMAIN LockAt
           /\ LockAt[pc[u]].mu = a.mu
           /\ LockAt[pc[u]].mode = "W"

\* the threads t waits for, directly or through others
RECURSIVE WaitChain(_, _)
WaitChain(from, n) ==
    IF n = 0 THEN from
    ELSE WaitChain(from \cup {u \in Threads :
                                \E v \in from : WaitsFor(v, u)}, n - 1)

Behind(t) == WaitChain({u \in Threads : WaitsFor(t, u)}, Cardinality(Threads))

NoWaitCycle == \A t \in Threads : t \notin Behind(t)

\* a command is being served on connection c
InService(c) == pc[c] \notin {"read", "closed"}

\* C5: no reachable state has a cycle of threads each waiting for a store
\* lock another one holds, and under fair scheduling no thread stays at a
\* Lock or RLock call for ever (every lock request is granted) and no
\* connection stays in a command for ever (every dispatched command returns
\* and is answered).
C5_DeadlockFree ==
    /\ []NoWaitCycle
    /\ \A t \in Threads : []<>(pc[t] \notin DOMAIN LockAt)
    /\ \A c \in Conns : []<>(~InService(c))

\* the sweeper holds the expiration lock and waits for the string lock a
\* connection holds, while the other connection waits for the sweeper
C5_Witness ==
    /\ WaitsFor("sw", "c1")
    /\ WaitsFor("c2", "sw")
    /\ Blocked("sw")
    /\ Blocked("c2")
    /\ "ExpirationsMu" \in Holds("sw")
    /\ "SETsMu" \in Holds("c1")

(***************************************************************************)
(* TTL and the expiry of a key, with one client served at a time.          *)
(***************************************************************************)
\* the expiration entry of k is there and its instant has passed
Passed(k) == Has(Expirations, k) /\ now > Expirations[k]

\* thread t is serving the command name with n arguments
Serving(t, name, n) ==
    cmd[t] # <<>> /\ NameOf(cmd[t]) = name /\ Len(cmd[t]) = n + 1

ExpiryReqs ==
    {Req(<<"SET", "k1", "1", "EX", "1">>), Req(<<"SET", "k2", "b">>),
     Req(<<"HSET", "k1", "f1", "a">>), Req(<<"EXPIRE", "k1", "1">>),
     Req(<<"GET", "k1">>), Req(<<"HGET", "k1", "f1">>),
     Req(<<"HLEN", "k1">>)}

NextExpiry ==
    \/ ReplayDone
    \/ Accept("c1")
    \/ Quiescent /\ Dispatch("c1", ExpiryReqs, MaxCmds)
    \/ Alone("c1") /\ LockStep("c1")
    \/ Alone("c1") /\ HandlerStep("c1")
    \/ WriteReply("c1")
    \/ Alone("sw") /\ LockStep("sw")
    \/ Alone("sw") /\ StartKeyExpiryCleaner
    \/ Quiescent /\ Tick

SpecExpiry == InitSeq /\ [][NextExpiry]_vars

\* k is in none of the three stores
Gone(S, H, E, k) == ~Has(S, k) /\ ~Has(H, k) /\ ~Has(E, k)

\* the two keyspaces agree on every key but k
SameButFor(k) ==
    \A j \in ((DOMAIN SETs) \cup (DOMAIN HSETs) \cup (DOMAIN Expirations)
              \cup (DOMAIN SETs') \cup (DOMAIN HSETs')
              \cup (DOMAIN Expirations')) \ {k} :
        /\ Has(SETs, j) = Has(SETs', j)
        /\ Has(HSETs, j) = Has(HSETs', j)
        /\ Has(Expirations, j) = Has(Expirations', j)
        /\ Has(SETs, j) => SETs'[j] = SETs[j]
        /\ Has(HSETs, j) => HSETs'[j] = HSETs[j]
        /\ Has(Expirations, j) => Expirations'[j] = Expirations[j]

\* k1 was given a time to live by an earlier request
HadTtl ==
    \E i \in 1..Len(log) :
        log[i].array = <<"SET", "k1", "1", "EX", "1">>

\* C12 (as claimed): when the lazy check of GET k or the sweeper has removed
\* a key whose instant has passed, the key is in none of the three stores
\* and no other key was touched; a later GET k answers Null, HGET k f
\* answers Null and HLEN k answers 0.
C12_ExpiredKeyGoneEverywhere ==
    [][/\ \A t \in Conns :
            /\ (pc[t] \in {"cad_85", "cad_89", "cad_93"} /\ pc'[t] # pc[t])
                  => SameButFor(cmd[t][2])
            /\ (pc[t] = "cad_93" /\ pc'[t] # pc[t])
                  => Gone(SETs', HSETs', Expirations', cmd[t][2])
            /\ (/\ Returns(t)
                /\ HadTtl
                /\ Gone(SETs, HSETs, Expirations, "k1"))
                  => /\ Serving(t, "GET", 1) => res'[t] = Null
                     /\ Serving(t, "HGET", 2) => res'[t] = Null
                     /\ Serving(t, "HLEN", 1) => res'[t] = Integer(0)
       /\ (pc["sw"] \in {"sw_58", "sw_63"} /\ pc'["sw"] # pc["sw"])
             => SameButFor(sw.k)
       /\ (pc["sw"] = "sw_63" /\ pc'["sw"] # pc["sw"])
             => Gone(SETs', HSETs', Expirations', sw.k)]_vars

(***************************************************************************)
(* SpecCounter: a key holding a decimal integer, left by the log, and two  *)
(* clients that send INCR and DECR on it at the same time.                 *)
(***************************************************************************)
CounterReqs == {Req(<<"INCR", "k1">>), Req(<<"DECR", "k1">>)}

InitCounter ==
    \E c \in {"0", "1"} : InitWith(<<Req(<<"SET", "k1", c>>)>>)

NextCounter ==
    \/ ReplayRecord
    \/ ReplayDone
    \/ \E c \in Conns : Accept(c)
    \/ \E c \in Conns : Dispatch(c, CounterReqs, MaxCmds)
    \/ \E t \in Workers : LockStep(t)
    \/ set_146("main") \/ set_156("main")
    \/ \E c \in Conns : incr_367(c) \/ decr_394(c)
    \/ \E c \in Conns : WriteReply(c)

SpecCounter == InitCounter /\ [][NextCounter]_vars

\* how many of the requests the clients have sent are name
Sent(name) ==
    Cardinality({i \in (flen + 1)..Len(log) : log[i].array[1] = name})

\* the integer the log left in k1
Start == Atoi(log[1].array[3])

\* no client is inside a handler
NoneRunning == \A c \in Conns : pc[c] \in {"closed", "read", "ret"}

\* what the command of connection c adds
Delta(c) == IF NameOf(cmd[c]) = "INCR" THEN 1 ELSE -1

\* C13: with n INCR and m DECR sent by different connections on a key that
\* held c, once they have all run the key holds c+n-m; every INCR or DECR
\* takes effect in one step, on the value the one before it left, and
\* returns what it stores (the steps in the order they happen are a serial
\* order of the commands); the results of two commands that ran together are
\* those of one of the two serial orders.
C13_NoLostUpdate ==
    [][/\ (pc'["main"] = "srv_48" /\ NoneRunning') =>
             SETs'["k1"] = Itoa(Start + Sent("INCR")' - Sent("DECR")')
       /\ \A c \in Conns :
             Returns(c) =>
                /\ res'[c] = Integer(Atoi(SETs["k1"]) + Delta(c))
                /\ SETs'["k1"] = Itoa(Atoi(SETs["k1"]) + Delta(c))
       /\ (/\ pc'["c1"] = "ret" /\ pc'["c2"] = "ret"
           /\ nreq'["c1"] = 1 /\ nreq'["c2"] = 1) =>
             LET r1 == res'["c1"].num
                 r2 == res'["c2"].num
                 d1 == Delta("c1")'
                 d2 == Delta("c2")'
             IN \/ r1 = Start + d1 /\ r2 = r1 + d2
                \/ r2 = Start + d2 /\ r1 = r2 + d1]_vars

\* two INCR that asked for the lock at the same time have both been
\* answered, with 2 and 3, on a key that held 1
C13_Witness ==
    /\ pc["c1"] = "ret" /\ pc["c2"] = "ret"
    /\ nreq["c1"] = 1 /\ nreq["c2"] = 1
    /\ NameOf(cmd["c1"]) = "INCR" /\ NameOf(cmd["c2"]) = "INCR"
    /\ res["c1"] = Integer(3) /\ res["c2"] = Integer(2)
    /\ SETs["k1"] = "3"

(***************************************************************************)
(* SpecBlock: two clients on different keys, one sending SET k1 or GET k1, *)
(* the other SET k2 or HSET k2.                                            *)
(***************************************************************************)
BlockReqs1 == {Req(<<"SET", "k1", "a">>), Req(<<"GET", "k1">>)}

BlockReqs2 == {Req(<<"SET", "k2", "b">>), Req(<<"HSET", "k2", "f1", "a">>)}

NextBlock ==
    \/ ReplayDone
    \/ \E c \in Conns : Accept(c)
    \/ Dispatch("c1", BlockReqs1, MaxConc)
    \/ Dispatch("c2", BlockReqs2, MaxConc)
    \/ \E c \in Conns : LockStep(c)
    \/ \E c \in Conns : set_146(c) \/ set_156(c) \/ hset_192(c)
    \/ \E c \in Conns : cad_78(c) \/ cad_81(c) \/ cad_101(c) \/ cad_109(c)
    \/ \E c \in Conns : WriteReply(c)

SpecBlock == InitSeq /\ [][NextBlock]_vars

\* t is at a Lock or RLock call that cannot return because u holds the mutex
BlockedBy(t, u) == Blocked(t) /\ LockAt[pc[t]].mu \in Holds(u)

\* C14 (as claimed): no thread executing SET k1 waits for a lock held by a
\* thread executing SET k2 with k2 another key, and no thread executing GET
\* waits for a lock held by a thread executing HSET.
C14_DifferentKeysNeverBlock ==
    \A t, u \in Conns :
        BlockedBy(t, u) =>
            /\ ~(/\ NameOf(cmd[t]) = "SET" /\ NameOf(cmd[u]) = "SET"
                 /\ cmd[t][2] # cmd[u][2])
            /\ ~(NameOf(cmd[t]) = "GET" /\ NameOf(cmd[u]) = "HSET")

(***************************************************************************)
(* SpecNum: one client that sets a key to a number (small, the largest     *)
(* int, the smallest, one too large to fit) or to a word, and sends INCR   *)
(* and DECR.                                                               *)
(***************************************************************************)
NumReqs ==
    {Req(<<"SET", "k1", "1">>), Req(<<"SET", "k1", "a">>),
     Req(<<"SET", "k1", Itoa(MaxInt)>>), Req(<<"SET", "k1", Itoa(MinInt)>>),
     Req(<<"SET", "k1", Itoa(MaxInt + 1)>>),
     Req(<<"SET", "k1", "1", "EX", "1">>), Req(<<"HSET", "k1", "f1", "a">>),
     Req(<<"INCR", "k1">>), Req(<<"DECR", "k1">>)}

NextNum ==
    \/ ReplayDone
    \/ Accept("c1")
    \/ Dispatch("c1", NumReqs, MaxCmds)
    \/ LockStep("c1")
    \/ set_146("c1") \/ set_152("c1") \/ set_156("c1") \/ hset_192("c1")
    \/ incr_367("c1") \/ decr_394("c1")
    \/ WriteReply("c1")

SpecNum == InitSeq /\ [][NextNum]_vars

\* the decimal integers the client writes, as numbers
Decimals == (MinInt - 1)..(MaxInt + 1)

\* s is a decimal integer
IsDecimal(s) == \E n \in Decimals : ToString(n) = s

\* the decimal integer s
DecimalOf(s) == CHOOSE n \in Decimals : ToString(n) = s

\* C15 (as claimed): INCR k on a key absent from the string store stores "1"
\* and returns Integer 1, DECR k stores "0" and returns Integer 0; on a key
\* holding the decimal integer c they store and return c+1 and c-1; on a key
\* holding a string that is no number they return an Error and leave the
\* value as it is; they never change the hash store or the expiration
\* index.
C15_IncrDecrNumeric ==
    [][\A t \in Conns :
          (Returns(t) /\ (Serving(t, "INCR", 1) \/ Serving(t, "DECR", 1))) =>
             LET k == cmd[t][2]
                 d == IF NameOf(cmd[t]) = "INCR" THEN 1 ELSE -1
             IN /\ HSETs' = HSETs
                /\ Expirations' = Expirations
                /\ ~Has(SETs, k) =>
                      LET first == IF d = 1 THEN 1 ELSE 0
                      IN /\ SETs' = MapPut(SETs, k, ToString(first))
                         /\ res'[t] = Integer(first)
                /\ (Has(SETs, k) /\ IsDecimal(SETs[k])) =>
                      /\ SETs' = MapPut(SETs, k, ToString(DecimalOf(SETs[k]) + d))
                      /\ res'[t] = Integer(DecimalOf(SETs[k]) + d)
                /\ (Has(SETs, k) /\ ~IsDecimal(SETs[k])) =>
                      /\ SETs' = SETs
                      /\ res'[t].typ = "error"]_vars

(***************************************************************************)
(* SpecHash: two clients sending hash commands on one key at the same      *)
(* time.                                                                   *)
(***************************************************************************)
HashReqs ==
    {Req(<<"HSET", "k1", "f1", "a">>), Req(<<"HSET", "k1", "f2", "b">>),
     Req(<<"HDEL", "k1", "f1">>), Req(<<"HDEL", "k1", "f2">>),
     Req(<<"HLEN", "k1">>), Req(<<"HGETALL", "k1">>), Req(<<"DEL", "k1">>)}

NextHash ==
    \/ ReplayDone
    \/ \E c \in Conns : Accept(c)
    \/ \E c \in Conns : Dispatch(c, HashReqs, MaxConc + 1)
    \/ \E c \in Conns : LockStep(c)
    \/ \E c \in Conns : hset_192(c) \/ hdel_261(c) \/ hlen_283(c)
    \/ \E c \in Conns : hgetall_235(c) \/ del_320(c) \/ del_324(c)
    \/ \E c \in Conns : WriteReply(c)

SpecHash == InitSeq /\ [][NextHash]_vars

\* no entry of the hash store is a hash without fields
NoEmptyHash(H) == \A h \in DOMAIN H : DOMAIN H[h] # {}

\* C16: no hash-store entry ever has zero fields; an HDEL h f that removes
\* the only field of h removes h, and one on an absent hash or an absent
\* field changes nothing; every HDEL answers OK; on a hash that is not in
\* the store HLEN answers 0 and HGETALL answers Null.
C16_HashLifecycle ==
    [][/\ NoEmptyHash(HSETs')
       /\ \A t \in Conns :
            /\ (Returns(t) /\ Serving(t, "HDEL", 2)) =>
                  LET h == cmd[t][2]
                      f == cmd[t][3]
                  IN /\ res'[t] = SimpleString("OK")
                     /\ SETs' = SETs /\ Expirations' = Expirations
                     /\ (Has(HSETs, h) /\ DOMAIN HSETs[h] = {f})
                           => HSETs' = MapDel(HSETs, h)
                     /\ (~Has(HSETs, h) \/ ~Has(HSETs[h], f))
                           => HSETs' = HSETs
                     /\ (Has(HSETs, h) /\ Has(HSETs[h], f)
                         /\ DOMAIN HSETs[h] # {f})
                           => HSETs' = MapPut(HSETs, h, MapDel(HSETs[h], f))
            /\ (Returns(t) /\ Serving(t, "HLEN", 1) /\ ~Has(HSETs, cmd[t][2]))
                  => res'[t] = Integer(0)
            /\ (Returns(t) /\ Serving(t, "HGETALL", 1)
                /\ ~Has(HSETs, cmd[t][2]))
                  => res'[t] = Null]_vars

\* HSET k1 f1 a and HDEL k1 f1 have run, the hash is gone, and an HLEN k1
\* sent after them has been answered 0
C16_Witness ==
    /\ log = <<Req(<<"HSET", "k1", "f1", "a">>), Req(<<"HDEL", "k1", "f1">>)>>
    /\ pc["c1"] = "ret" /\ Serving("c1", "HLEN", 1)
    /\ res["c1"] = Integer(0)
    /\ pc["c2"] = "read" /\ nreq["c2"] = 2 /\ nreq["c1"] = 1
    /\ ~Has(HSETs, "k1")

(***************************************************************************)
(* SpecProto: one connection of handleConnection that sends requests of    *)
(* every kind: the sixteen commands, a name in lower case, a name without  *)
(* a handler, a SET short of an argument, an empty array and a value that  *)
(* is no array.  The goroutine of the connection keeps running.            *)
(***************************************************************************)
NotArray == [typ |-> "bulk", array |-> <<>>]

ProtoReqs ==
    Reqs16 \cup
    {Req(<<"set", "k1", "a">>), Req(<<"FOO", "k1">>), Req(<<"SET", "k1">>),
     Req(<<>>), NotArray}

NextProto ==
    \/ ReplayDone
    \/ Accept("c1")
    \/ Dispatch("c1", ProtoReqs, MaxCmds)
    \/ LockStep("c1")
    \/ Alone("c1") /\ HandlerStep("c1")
    \/ WriteReply("c1")

SpecProto ==
    /\ InitSeq
    /\ [][NextProto]_vars
    /\ WF_vars(LockStep("c1"))
    /\ WF_vars(Alone("c1") /\ HandlerStep("c1"))
    /\ WF_vars(WriteReply("c1"))

\* the names of the commands that are to be logged
AllowList == {"SET", "HSET", "DEL", "FLUSHALL", "HDEL", "INCR", "DECR"}

\* connection c takes a request off its socket in this step
Receives(c) == nreq'[c] = nreq[c] + 1

main_Logged(command) == command \in {"SET", "HSET", "DEL", "FLUSHALL", "HDEL"}

\* main.go, line 46: the one connection is accepted
main_Accept(c) ==
    /\ pc["main"] = "srv_48"
    /\ \A d \in Conns : pc[d] = "closed" /\ nreq[d] = 0
    /\ pc' = [pc EXCEPT ![c] = "read"]
    /\ UNCHANGED <<SETs, HSETs, Expirations, locks, now, log, cmd, loc, res,
                   flen, rp, applied, sw, nreq, replies, snap, restarts>>

\* main.go, lines 54-89: a request is read; one that is no array or is an
\* empty array is reported on the console and the loop goes on to the next
\* read; a name without a handler is answered with an empty string; any
\* other request is logged if its name is on the list, and its handler is
\* entered
main_loop(t, reqs, max) ==
    /\ pc[t] = "read"
    /\ nreq[t] < max
    /\ nreq' = [nreq EXCEPT ![t] = @ + 1]
    /\ \E value \in reqs :
          IF value.typ # "array" \/ Len(value.array) = 0
          THEN UNCHANGED <<pc, res, cmd, log>>
          ELSE LET command == ToUpper(value.array[1])
                   args == Tail(value.array)
               IN IF command \notin Handlers
                  THEN /\ pc' = [pc EXCEPT ![t] = "write_80"]
                       /\ res' = [res EXCEPT ![t] = SimpleString("")]
                       /\ UNCHANGED <<cmd, log>>
                  ELSE /\ log' = IF main_Logged(command)
                                 THEN AofWrite(log, value) ELSE log
                       /\ pc' = [pc EXCEPT ![t] = Entry(command, args).pc]
                       /\ res' = [res EXCEPT ![t] = Entry(command, args).res]
                       /\ cmd' = [cmd EXCEPT ![t] = value.array]
    /\ UNCHANGED <<SETs, HSETs, Expirations, locks, now, loc, flen, rp, applied,
                   sw, replies, snap, restarts>>

\* main.go, lines 80 and 90: writer.Write, then the next read
main_Write(t) ==
    /\ pc[t] \in {"write_80", "ret"}
    /\ replies' = [replies EXCEPT ![t] = @ + 1]
    /\ pc' = [pc EXCEPT ![t] = "read"]
    /\ res' = [res EXCEPT ![t] = NoValue]
    /\ cmd' = [cmd EXCEPT ![t] = <<>>]
    /\ UNCHANGED <<SETs, HSETs, Expirations, locks, now, log, loc, flen, rp,
                   applied, sw, nreq, snap, restarts>>

(***************************************************************************)
(* SpecMain: the server of main.go with one client; the connection called  *)
(* c1 sends commands and malformed requests, the one called c2 commands    *)
(* and a name without a handler.                                           *)
(***************************************************************************)
MainReqs(c) ==
    Reqs16 \cup {Req(<<"set", "k1", "a">>)} \cup
    (IF c = "c1" THEN {Req(<<>>), NotArray} ELSE {Req(<<"FOO", "k1">>)})

NextMain ==
    \/ ReplayDone
    \/ \E c \in Conns : main_Accept(c)
    \/ \E c \in Conns : main_loop(c, MainReqs(c), MaxCmds)
    \/ \E c \in Conns : LockStep(c)
    \/ \E c \in Conns : Alone(c) /\ HandlerStep(c)
    \/ \E c \in Conns : main_Write(c)

SpecMain == InitSeq /\ [][NextMain]_vars

\* C18 (as claimed): every request a connection has received has had one
\* reply when the connection reads again; a request that is no array or is
\* an empty array is answered with the "invalid request" Value and one whose
\* name has no handler with the "unknown command" Value, and while such a
\* request is served the log and the keyspace stay as they are; a name in
\* lower case finds its handler.
C18_OneReplyPerRequest ==
    [][\A c \in Conns :
          /\ replies'[c] <= nreq'[c]
          /\ pc'[c] = "read" => replies'[c] = nreq'[c]
          /\ (Receives(c) /\ cmd'[c] = <<>>) =>
                /\ res'[c] = IF c = "c1" THEN SimpleString("Invalid request")
                             ELSE SimpleString("Unknown command")
                /\ log' = log /\ stores' = stores
          /\ (pc[c] # "read" /\ pc'[c] # pc[c] /\ cmd[c] = <<>>) =>
                (log' = log /\ stores' = stores)
          /\ (Returns(c) /\ cmd[c] = <<"set", "k1", "a">>) =>
                (res'[c] = SimpleString("OK") /\ SETs'["k1"] = "a")]_vars

(***************************************************************************)
(* SpecExpire: one client that creates and deletes a key, as a string and  *)
(* as a hash, and sends EXPIRE with one second, the largest int, one more  *)
(* than that, zero, a negative number and a word, while the clock ticks.   *)
(***************************************************************************)
ExpireReqs ==
    {Req(<<"SET", "k1", "a">>), Req(<<"HSET", "k1", "f1", "a">>),
     Req(<<"DEL", "k1">>), Req(<<"EXPIRE", "k1", "1">>),
     Req(<<"EXPIRE", "k1", Itoa(MaxInt)>>),
     Req(<<"EXPIRE", "k1", Itoa(MaxInt + 1)>>),
     Req(<<"EXPIRE", "k1", "0">>), Req(<<"EXPIRE", "k1", "-1">>),
     Req(<<"EXPIRE", "k1", "a">>)}

NextExpire ==
    \/ ReplayDone
    \/ Accept("c1")
    \/ Dispatch("c1", ExpireReqs, MaxCmds)
    \/ LockStep("c1")
    \/ set_146("c1") \/ set_156("c1") \/ hset_192("c1")
    \/ del("c1")
    \/ expire("c1")
    \/ WriteReply("c1")
    \/ pc["c1"] = "read" /\ Tick

SpecExpire == InitSeq /\ [][NextExpire]_vars

\* thread t has taken up, and not yet answered, the command name with n
\* arguments
Taken(t, name, n) ==
    cmd'[t] # <<>> /\ NameOf(cmd'[t]) = name /\ Len(cmd'[t]) = n + 1

\* C19 (as claimed): EXPIRE k secs with secs a positive integer and k in the
\* string store or the hash store sets the expiration entry of k to
\* now+secs and returns Integer 1; with k in neither store it returns
\* Integer 0 and leaves the expiration index as it is; with secs no positive
\* integer it returns an Error and changes nothing; no step of EXPIRE
\* changes the string store or the hash store.
C19_Expire ==
    [][\A t \in Conns :
          /\ (Taken(t, "EXPIRE", 2) /\ pc'[t] # pc[t]) =>
                (SETs' = SETs /\ HSETs' = HSETs)
          /\ (Taken(t, "EXPIRE", 2) /\ Returns(t)) =>
                LET k == cmd'[t][2]
                    s == cmd'[t][3]
                IN IF ~IsDecimal(s) \/ DecimalOf(s) <= 0
                   THEN res'[t].typ = "error" /\ stores' = stores
                   ELSE IF ~Has(SETs, k) /\ ~Has(HSETs, k)
                   THEN res'[t] = Integer(0) /\ Expirations' = Expirations
                   ELSE /\ res'[t] = Integer(1)
                        /\ Expirations' =
                              MapPut(Expirations, k, now + DecimalOf(s))]_vars

\* C19, for seconds and an instant that fit the int: the same, with secs and
\* now+secs no larger than the largest int
C19_ExpireInRange ==
    [][\A t \in Conns :
          /\ (Taken(t, "EXPIRE", 2) /\ pc'[t] # pc[t]) =>
                (SETs' = SETs /\ HSETs' = HSETs)
          /\ (Taken(t, "EXPIRE", 2) /\ Returns(t)) =>
                LET k == cmd'[t][2]
                    s == cmd'[t][3]
                IN IF ~IsDecimal(s) \/ DecimalOf(s) <= 0
                   THEN res'[t].typ = "error" /\ stores' = stores
                   ELSE IF DecimalOf(s) <= MaxInt /\ ~Has(SETs, k) /\ ~Has(HSETs, k)
                   THEN res'[t] = Integer(0) /\ Expirations' = Expirations
                   ELSE (DecimalOf(s) <= MaxInt /\ now + DecimalOf(s) <= MaxInt) =>
                           /\ res'[t] = Integer(1)
                           /\ Expirations' =
                                 MapPut(Expirations, k, now + DecimalOf(s))]_vars

(***************************************************************************)
(* SpecSweep: the sweeper, running beside one client that gives a string   *)
(* key and a hash key a time to live, overwrites and clears it, and reads, *)
(* while the clock ticks.  The sweeper and the handlers keep running and a *)
(* Lock or RLock call that can return again and again does return.         *)
(***************************************************************************)
SweepReqs ==
    {Req(<<"SET", "k1", "1", "EX", "1">>), Req(<<"SET", "k1", "a">>),
     Req(<<"HSET", "k2", "f1", "a">>), Req(<<"EXPIRE", "k2", "1">>),
     Req(<<"EXPIRE", "k1", "1">>), Req(<<"PERSIST", "k1">>),
     Req(<<"GET", "k1">>)}

NextSweep ==
    \/ ReplayDone
    \/ Accept("c1")
    \/ Dispatch("c1", SweepReqs, MaxCmds)
    \/ \E t \in {"c1", "sw"} : LockStep(t)
    \/ set("c1") \/ checkAndDeleteIfExpired("c1") \/ hset_192("c1")
    \/ expire("c1") \/ persist("c1")
    \/ WriteReply("c1")
    \/ StartKeyExpiryCleaner
    \/ Tick

SweepFairness ==
    /\ \A t \in {"c1", "sw"} : SF_vars(LockStep(t))
    /\ WF_vars(HandlerStep("c1"))
    /\ WF_vars(StartKeyExpiryCleaner)

SpecSweep == InitSeq /\ [][NextSweep]_vars /\ SweepFairness

\* the step is one of the sweeper
SweeperStep == pc'["sw"] # pc["sw"] \/ sw' # sw

\* the keys and the instants of SpecSweep
SweepKeys == {"k1", "k2"}
SweepInstants == 1..(MaxTime + 1)

\* C20: an expiration entry whose instant has passed does not stay: it is
\* removed, or overwritten or cleared, in the end; when the sweeper removes
\* the entry of a key it has removed the key from the string store before
\* and removes it from the hash store with it; and the sweeper removes a key
\* from a store only when the key has an expiration entry whose instant has
\* passed.
C20_SweeperLiveness ==
    /\ \A k \in SweepKeys : \A e \in SweepInstants :
          []<>(~(Has(Expirations, k) /\ Expirations[k] = e /\ now > e))
    /\ [][SweeperStep =>
            \A k \in SweepKeys :
               /\ (Has(SETs, k) /\ ~Has(SETs', k)) => Passed(k)
               /\ (Has(HSETs, k) /\ ~Has(HSETs', k)) => Passed(k)
               /\ (Has(Expirations, k) /\ ~Has(Expirations', k)) =>
                     (Passed(k) /\ ~Has(HSETs', k))
               /\ (pc["sw"] = "sw_58" /\ sw.k = k) =>
                     (Passed(k) /\ ~Has(SETs', k))
               /\ (pc'["sw"] = "sw_63" /\ sw'.k = k) => Passed(k) ]_vars

\* the sweeper, in its range loop, has removed the hash key k2 and its
\* entry, which no client has read
C20_Witness ==
    /\ pc["sw"] = "sw_54"
    /\ "k2" \in sw.done
    /\ ~Has(Expirations, "k2")
    /\ ~Has(HSETs, "k2")
    /\ now = MaxTime

(***************************************************************************)
(* SpecAtomic: a server started on a log that leaves a string key with a   *)
(* time to live and a hash; one client sends FLUSHALL or SET k1 b, the     *)
(* other INFO or TTL k1, at the same time.                                 *)
(***************************************************************************)
AtomicLog ==
    <<Req(<<"SET", "k1", "a", "EX", "1">>), Req(<<"HSET", "k2", "f1", "a">>)>>

AtomicWriteReqs == {Req(<<"FLUSHALL">>), Req(<<"SET", "k1", "b">>)}

AtomicReadReqs == {Req(<<"INFO">>), Req(<<"TTL", "k1">>)}

InitAtomic == InitWith(AtomicLog)

NextAtomic ==
    \/ ReplayRecord
    \/ ReplayDone
    \/ \E c \in Conns : Accept(c)
    \/ Dispatch("c1", AtomicWriteReqs, MaxConc)
    \/ Dispatch("c2", AtomicReadReqs, MaxConc)
    \/ \E t \in Workers : LockStep(t)
    \/ \E t \in {"main", "c1"} : set_146(t)
    \/ set_152("main") \/ set_156("c1") \/ hset_192("main")
    \/ flushall("c1")
    \/ info("c2") \/ ttl("c2")
    \/ \E c \in Conns : WriteReply(c)

SpecAtomic == InitAtomic /\ [][NextAtomic]_vars

\* the three numbers of an INFO report
Counts(value) == value.arr

\* C21 (as claimed): a command that touches more than one store takes
\* effect at a single point: INFO beside FLUSHALL reports the counts before
\* the flush (one key, one hash, one field) or all zeros, and TTL k1 beside
\* SET k1 b, when it reads the expiration index while the new value b is
\* what a GET would read, does not find the old time to live there.
C21_CommandsAtomic ==
    [][/\ (Returns("c2") /\ Serving("c2", "INFO", 0)) =>
             Counts(res'["c2"]) \in {<<1, 1, 1>>, <<0, 0, 0>>}
       /\ (pc["c2"] = "ttl_451" /\ pc'["c2"] # "ttl_451"
              /\ Has(SETs, "k1") /\ SETs["k1"] = "b") =>
             ~Has(Expirations, "k1")
      ]_vars

\* C22 (as claimed): PERSIST k returns Integer 1 and removes the expiration
\* entry of k exactly when k is in a data store and has an expiration entry
\* whose instant has not passed; for a key in no data store, a key without
\* an entry and a key whose instant has passed it returns Integer 0 and
\* leaves the entry as it is; no step of PERSIST changes the string store
\* or the hash store.
C22_PersistOnlyLive ==
    [][\A t \in Conns :
          /\ (Taken(t, "PERSIST", 1) /\ pc'[t] # pc[t]) =>
                (SETs' = SETs /\ HSETs' = HSETs)
          /\ (Taken(t, "PERSIST", 1) /\ Returns(t)) =>
                LET k == cmd'[t][2]
                IN IF /\ Has(SETs, k) \/ Has(HSETs, k)
                      /\ Has(Expirations, k)
                      /\ ~Passed(k)
                   THEN /\ res'[t] = Integer(1)
                        /\ Expirations' = MapDel(Expirations, k)
                   ELSE /\ res'[t] = Integer(0)
                        /\ Expirations' = Expirations]_vars

=============================================================================
